---- MODULE Spec2Model ----
(***************************************************************************)
(* A model of the two utilities of the repository:                         *)
(*   - jl_hiv/scripts/summarize_stats.py: main and summarize_counts;       *)
(*   - scde_deploy/bcbio/deploy/shared.py: _get_install_local (with        *)
(*     _fetch_and_unpack, _safe_dir_name, _make_tmp_dir) and               *)
(*     _run_in_screen (with _is_running).                                  *)
(* Each utility has its own specification over its own variables; the      *)
(* variables of the other utilities stay at their initial value.           *)
(***************************************************************************)
EXTENDS Integers, Sequences, FiniteSets, TLC

VARIABLES
  \* ---- summarize_stats.py
  in_files,     \* <<stats, stats>>: the loaded record list of each invocation of main
  run,          \* which invocation of main is running (1 or 2)
  pc,           \* position in main: "region", "record", "bucket", or how it ended
  region_i,     \* index of `region` in `regions` (line 16)
  rstats,       \* the sorted tuples of the current region (lines 18-20)
  rec_i,        \* index in rstats of the record being summarized (line 21)
  bucket_i,     \* index in zip(names, selects) (line 30)
  vals,         \* the accumulator of the bucket last computed (lines 31-35)
  out,          \* standard output of the running invocation, one element per line
  subreports,   \* history: per call of summarize_counts, its info and its buckets
  first,        \* what the first invocation left: its output and how it ended
  \* ---- summarize_stats.py, the three selectors alone
  entry,        \* a call entry x handed to the selectors
  hits,         \* per bucket, how many of [x] filter(select, [x]) keeps
  \* ---- shared.py, _get_install_local
  url,          \* the url argument: [kind, name], name being the file's base name
  local_install, \* env.local_install, a path
  archive,      \* the top-level directories the file at url unpacks to
  fs,           \* the remote file system: the set of paths that exist
  ipc,          \* position in _get_install_local
  dir_name,     \* what _fetch_and_unpack returned (line 129)
  made,         \* the running call has run make_command (line 132)
  moved,        \* the running call has run mv (line 133): "no", "into", "as"
  installs,     \* history: how each finished call ended, and its made and moved
  \* ---- shared.py, _run_in_screen
  args,         \* the arguments of the running call
  procs,        \* the remote process table: one command line per process
  sessions,     \* the screen sessions that exist, as <<owner, name>>
  spc,          \* position in _run_in_screen
  issued,       \* history: the screen commands of the running call, in order
  screen_calls  \* history: per finished call, its arguments, what it found and issued

sumVars == <<in_files, run, pc, region_i, rstats, rec_i, bucket_i, vals, out,
             subreports, first>>

selVars == <<entry, hits>>

instVars ==
  <<url, local_install, archive, fs, ipc, dir_name, made, moved, installs>>

scrVars == <<args, procs, sessions, spc, issued, screen_calls>>

vars == <<sumVars, selVars, instVars, scrVars>>

\* ------------------------------------------------------------------------
\* Bounds of the inputs
\* ------------------------------------------------------------------------

MaxRecords == 2

MaxCalls == 2

\* ------------------------------------------------------------------------
\* summarize_stats.py: constants of the code
\* ------------------------------------------------------------------------

regions == <<"rt", "gag">>

names == <<"single", ">=5%", "<5%">>

\* Every key a call entry may carry, in the order Python 2 compares str keys.
FieldOrder == <<"correct", "partial", "percent", "skipped", "wrong">>

AllFields == {FieldOrder[i] : i \in 1..Len(FieldOrder)}

CountFields == AllFields \ {"percent"}

Range(s) == {s[i] : i \in 1..Len(s)}

\* ------------------------------------------------------------------------
\* summarize_stats.py: pure helpers
\* ------------------------------------------------------------------------

\* float(s["qual"]), float(s["kmer"]): the raw value is a decimal numeral, held as
\* its sequence of digits; float reads it as a number.
RECURSIVE ToFloat(_)
ToFloat(s) ==
  IF s = <<>> THEN 0
  ELSE 10 * ToFloat(SubSeq(s, 1, Len(s) - 1)) + s[Len(s)]

\* Mutant of selects: the middle bucket closed at 100 (<= for <).
selects_closed(i, x) ==
  CASE i = 1 -> x.percent = 100
    [] i = 2 -> x.percent <= 100 /\ x.percent >= 5
    [] i = 3 -> x.percent < 5

\* selects[i](x), lines 26-28; percent is held in whole percent points.
selects(i, x) ==
  CASE i = 1 -> x.percent = 100
    [] i = 2 -> x.percent < 100 /\ x.percent >= 5
    [] i = 3 -> x.percent < 5

\* Mutant of RegionMatch: the records are not filtered by region.
RegionMatchAny(s, region) == s.region = s.region

\* s["region"] == region, line 19.
RegionMatch(s, region) == s.region = region

\* Python 2's comparison of two call-entry dicts (dict_compare): the shorter dict
\* is smaller; of two dicts of one length, the smallest key at which they differ
\* decides, by key first and by value next.
DiffKeys(a, b) ==
  {i \in 1..Len(FieldOrder) :
     /\ FieldOrder[i] \in DOMAIN a
     /\ (FieldOrder[i] \notin DOMAIN b \/ a[FieldOrder[i]] # b[FieldOrder[i]])}

Min(S) == CHOOSE x \in S : \A y \in S : x <= y

EntryCmp(a, b) ==
  IF Cardinality(DOMAIN a) # Cardinality(DOMAIN b)
  THEN (IF Cardinality(DOMAIN a) < Cardinality(DOMAIN b) THEN -1 ELSE 1)
  ELSE IF DiffKeys(a, b) = {} THEN 0
  ELSE LET ka == Min(DiffKeys(a, b))
           kb == Min(DiffKeys(b, a))
       IN  IF ka # kb THEN (IF ka < kb THEN -1 ELSE 1)
           ELSE IF a[FieldOrder[ka]] < b[FieldOrder[kb]] THEN -1 ELSE 1

\* Python's comparison of two lists: the first differing element decides, and a
\* proper prefix is smaller.
RECURSIVE CallsCmp(_, _)
CallsCmp(x, y) ==
  IF x = <<>> THEN (IF y = <<>> THEN 0 ELSE -1)
  ELSE IF y = <<>> THEN 1
  ELSE IF EntryCmp(Head(x), Head(y)) # 0 THEN EntryCmp(Head(x), Head(y))
  ELSE CallsCmp(Tail(x), Tail(y))

\* The tuples being sorted, line 18.
SortTuple(s) == <<ToFloat(s.qual), ToFloat(s.kmer), s>>

\* Tuple comparison as rstats.sort() uses it: qual, then kmer, then the record
\* dict itself, whose smallest key is "calls" (two records of one region that
\* agree on both numbers differ, if at all, in their calls).
TupleLess(a, b) ==
  \/ a[1] < b[1]
  \/ a[1] = b[1] /\ a[2] < b[2]
  \/ a[1] = b[1] /\ a[2] = b[2] /\ CallsCmp(a[3].calls, b[3].calls) < 0

\* list.sort(): stable, so an element goes after the elements not greater than it.
RECURSIVE InsertSorted(_, _)
InsertSorted(x, s) ==
  IF s = <<>> THEN <<x>>
  ELSE IF TupleLess(x, Head(s)) THEN <<x>> \o s
  ELSE <<Head(s)>> \o InsertSorted(x, Tail(s))

RECURSIVE SortTuples(_)
SortTuples(s) ==
  IF s = <<>> THEN <<>>
  ELSE InsertSorted(s[Len(s)], SortTuples(SubSeq(s, 1, Len(s) - 1)))

\* Lines 18-20: the tuples of the records of one region, sorted.
RegionStats(stats, region) ==
  LET picked == SelectSeq(stats, LAMBDA s : RegionMatch(s, region))
  IN  SortTuples([i \in 1..Len(picked) |-> SortTuple(picked[i])])

\* Mutant of FreshVals: the accumulator is created once and reused.
StaleVals == vals

\* vals = collections.defaultdict(int), line 31: every key reads as 0.
FreshVals == [k \in CountFields |-> 0]

Reverse(s) == [i \in 1..Len(s) |-> s[Len(s) + 1 - i]]

\* Three of the orders in which d.iteritems() may yield the keys: the order is
\* that of the dict's hash table, which the code does not control.
Orders ==
  {FieldOrder, Reverse(FieldOrder),
   <<"percent", "wrong", "correct", "skipped", "partial">>}

\* Lines 33-35 for one entry d, its keys visited in the order o.
RECURSIVE AddEntry(_, _, _)
AddEntry(v, d, o) ==
  IF o = <<>> THEN v
  ELSE LET k == Head(o)
           w == IF k \in DOMAIN d /\ k # "percent"
                THEN [v EXCEPT ![k] = v[k] + d[k]] ELSE v
       IN  AddEntry(w, d, Tail(o))

\* Lines 32-35: the entries the selector keeps, in list order.
RECURSIVE Accumulate(_, _, _)
Accumulate(v, ds, o) ==
  IF ds = <<>> THEN v
  ELSE Accumulate(AddEntry(v, Head(ds), o), Tail(ds), o)

RECURSIVE SumOver(_, _)
SumOver(f, S) ==
  IF S = {} THEN 0
  ELSE LET k == CHOOSE k \in S : TRUE IN f[k] + SumOver(f, S \ {k})

\* Mutant of Total: the sum of the three fields the report names.
TotalKnown(v) == v["correct"] + v["wrong"] + v["partial"]

\* total = float(sum(vals.values())), line 36.
Total(v) == SumOver(v, DOMAIN v)

\* right = vals["correct"], line 37.
Right(v) == v["correct"]

\* Mutant of Wrong: the partial calls are left out.
WrongOnly(v) == v["wrong"]

\* wrong = vals["wrong"] + vals["partial"], line 38.
Wrong(v) == v["wrong"] + v["partial"]

\* n / total * 100.0 as "%.1f" prints it, in tenths of a percent: the quotient
\* rounded to the nearest tenth, a tie going to the even digit.
Pct(n, total) ==
  LET q == (n * 1000) \div total
      r == (n * 1000) % total
  IN  IF 2 * r < total THEN q
      ELSE IF 2 * r > total THEN q + 1
      ELSE IF q % 2 = 0 THEN q ELSE q + 1

\* The line printed for a region (line 17), a record (line 29), a bucket (39-40).
RegionLine(region) == [kind |-> "region", text |-> region]

HeaderLine(info) == [kind |-> "header", qual |-> info.qual, kmer |-> info.kmer]

BucketLine(name, right, wrong, total) ==
  [kind |-> "bucket", name |-> name, right |-> right,
   right_pct |-> Pct(right, total), wrong |-> wrong,
   wrong_pct |-> Pct(wrong, total)]

\* ------------------------------------------------------------------------
\* summarize_stats.py: the inputs
\* ------------------------------------------------------------------------

Entry(p, c, w, pa) == [percent |-> p, correct |-> c, wrong |-> w, partial |-> pa]

\* An entry with one more numeric field, which the generic sum includes.
EntryX(p, c, w, pa, sk) ==
  [percent |-> p, correct |-> c, wrong |-> w, partial |-> pa, skipped |-> sk]

Percents == {3, 5, 100}

\* Per bucket: an entry of zero counts, one with a single correct, wrong or
\* partial call, and two with the further field.
CountEntries ==
  {Entry(p, v[1], v[2], v[3]) :
     p \in Percents, v \in {<<0, 0, 0>>, <<1, 0, 0>>, <<0, 1, 0>>, <<0, 0, 1>>}}
  \cup {EntryX(p, c, 0, 0, 1) : p \in Percents, c \in {0, 1}}

CallLists == UNION {[1..n -> CountEntries] : n \in 0..MaxCalls}

\* One record of region "rt" with every list of calls.
CountInputs ==
  {<<[region |-> "rt", qual |-> <<2, 0>>, kmer |-> <<3, 1>>, calls |-> c]>> :
     c \in CallLists}

\* Calls with every bucket filled, and the calls of the example record (one
\* entry of 100 percent, one of 3), whose ">=5%" bucket is empty.
FullCalls == <<Entry(100, 10, 0, 0), Entry(5, 1, 1, 0), Entry(3, 1, 4, 0)>>

GapCalls == <<Entry(100, 10, 0, 0), Entry(3, 1, 4, 0)>>

\* Another list with every bucket filled, two entries in one of them.
MoreCalls ==
  <<Entry(100, 10, 0, 0), Entry(5, 2, 0, 1), Entry(3, 0, 1, 0), Entry(100, 1, 2, 0)>>

\* "9" sorts after "10" as text and before it as a number; so do "5" and "11".
QualRaw == {<<9>>, <<1, 0>>}

KmerRaw == {<<5>>, <<1, 1>>}

\* Records of "rt" with every pair of numbers and three lists of calls, records
\* of "gag", and records of a region that is not configured.
SortRecords ==
  [region : {"rt"}, qual : QualRaw, kmer : KmerRaw,
   calls : {FullCalls, MoreCalls, GapCalls}]
  \cup [region : {"gag"}, qual : QualRaw, kmer : {<<5>>}, calls : {FullCalls}]
  \cup [region : {"env"}, qual : {<<9>>}, kmer : {<<5>>},
        calls : {FullCalls, GapCalls}]

SortInputs == UNION {[1..n -> SortRecords] : n \in 0..MaxRecords}

\* The records whose region is one of the configured labels.
Labelled(stats) == SelectSeq(stats, LAMBDA s : s.region \in Range(regions))

\* The two invocations: the second on the same list, or on the list without the
\* records of other regions (the same list when it has none).
Invocations ==
  {<<s, s>> : s \in CountInputs} \cup {<<s, Labelled(s)>> : s \in SortInputs}

\* ------------------------------------------------------------------------
\* summarize_stats.py: main and summarize_counts, step by step
\* ------------------------------------------------------------------------

stats == in_files[run]

SumInit ==
  /\ in_files \in Invocations
  /\ run = 1
  /\ pc = "region"
  /\ region_i = 1
  /\ rstats = <<>>
  /\ rec_i = 1
  /\ bucket_i = 1
  /\ vals = [k \in CountFields |-> 0]
  /\ out = <<>>
  /\ subreports = <<>>
  /\ first = [out |-> <<>>, pc |-> "none"]

\* Lines 16-20: the next region is printed and its records are sorted.
NextRegion ==
  /\ pc = "region"
  /\ region_i <= Len(regions)
  /\ out' = Append(out, RegionLine(regions[region_i]))
  /\ rstats' = RegionStats(stats, regions[region_i])
  /\ rec_i' = 1
  /\ IF rstats' = <<>>
     THEN pc' = "region" /\ region_i' = region_i + 1
     ELSE pc' = "record" /\ region_i' = region_i
  /\ UNCHANGED <<in_files, run, bucket_i, vals, subreports, first>>
  /\ UNCHANGED <<selVars, instVars, scrVars>>

\* Lines 21-22 and 25-29: summarize_counts is called and prints its first line.
NextRecord ==
  /\ pc = "record"
  /\ rec_i <= Len(rstats)
  /\ out' = Append(out, HeaderLine(rstats[rec_i][3]))
  /\ subreports' = Append(subreports, [info |-> rstats[rec_i][3], buckets |-> <<>>])
  /\ bucket_i' = 1
  /\ pc' = "bucket"
  /\ UNCHANGED <<in_files, run, region_i, rstats, rec_i, vals, first>>
  /\ UNCHANGED <<selVars, instVars, scrVars>>

\* Lines 30-40: one bucket. The division by a zero total raises
\* ZeroDivisionError before anything of the line is printed.
Bucket ==
  /\ pc = "bucket"
  /\ bucket_i <= Len(names)
  /\ \E o \in Orders :
       LET info == rstats[rec_i][3]
           kept == SelectSeq(info.calls, LAMBDA d : selects(bucket_i, d))
           v == Accumulate(FreshVals, kept, o)
           total == Total(v)
           right == Right(v)
           wrong == Wrong(v)
           n == Len(subreports)
           rep == [name |-> names[bucket_i], matched |-> Len(kept),
                   total |-> total, right |-> right, wrong |-> wrong,
                   failed |-> (total = 0)]
       IN  /\ vals' = v
           /\ subreports' = [subreports EXCEPT ![n].buckets = Append(@, rep)]
           /\ IF total = 0
              THEN /\ pc' = "ZeroDivisionError"
                   /\ UNCHANGED <<out, bucket_i, rec_i, region_i>>
              ELSE /\ out' = Append(out, BucketLine(names[bucket_i], right, wrong, total))
                   /\ IF bucket_i < Len(names)
                      THEN /\ bucket_i' = bucket_i + 1
                           /\ pc' = "bucket"
                           /\ UNCHANGED <<rec_i, region_i>>
                      ELSE /\ bucket_i' = 1
                           /\ IF rec_i < Len(rstats)
                              THEN /\ rec_i' = rec_i + 1
                                   /\ pc' = "record"
                                   /\ UNCHANGED region_i
                              ELSE /\ rec_i' = 1
                                   /\ region_i' = region_i + 1
                                   /\ pc' = "region"
  /\ UNCHANGED <<in_files, run, rstats, first>>
  /\ UNCHANGED <<selVars, instVars, scrVars>>

\* Line 16 is exhausted: main returns.
Return ==
  /\ pc = "region"
  /\ region_i > Len(regions)
  /\ pc' = "done"
  /\ UNCHANGED <<in_files, run, region_i, rstats, rec_i, bucket_i, vals, out,
                 subreports, first>>
  /\ UNCHANGED <<selVars, instVars, scrVars>>

\* main is called again (lines 42-43) once the first call has returned or raised.
\* Its locals start as the code sets them; vals is whatever the last bucket left.
Rerun ==
  /\ pc \in {"done", "ZeroDivisionError"}
  /\ run = 1
  /\ first' = [out |-> out, pc |-> pc]
  /\ run' = 2
  /\ pc' = "region"
  /\ region_i' = 1
  /\ rstats' = <<>>
  /\ rec_i' = 1
  /\ bucket_i' = 1
  /\ out' = <<>>
  /\ subreports' = <<>>
  /\ UNCHANGED <<in_files, vals>>
  /\ UNCHANGED <<selVars, instVars, scrVars>>

\* The summarizer is not running (the specifications of the other utilities).
SumIdle ==
  /\ in_files = <<<<>>, <<>>>>
  /\ run = 1
  /\ pc = "idle"
  /\ region_i = 1
  /\ rstats = <<>>
  /\ rec_i = 1
  /\ bucket_i = 1
  /\ vals = [k \in CountFields |-> 0]
  /\ out = <<>>
  /\ subreports = <<>>
  /\ first = [out |-> <<>>, pc |-> "none"]

\* ------------------------------------------------------------------------
\* summarize_stats.py: the selectors of summarize_counts on one entry
\* ------------------------------------------------------------------------

\* How far beyond [0, 100] the percent of the entry ranges.
Margin == 3

PercentGrid == (0 - Margin)..(100 + Margin)

SelInit ==
  /\ entry \in {Entry(p, 1, 0, 0) : p \in PercentGrid}
  /\ hits = <<>>

SelIdle ==
  /\ entry = Entry(0, 0, 0, 0)
  /\ hits = <<>>

\* Lines 30 and 32 on the list [entry]: per bucket, what filter keeps.
Classify ==
  /\ hits = <<>>
  /\ hits' = [i \in 1..Len(names) |->
                  Len(SelectSeq(<<entry>>, LAMBDA d : selects(i, d)))]
  /\ UNCHANGED <<entry, sumVars, instVars, scrVars>>

\* ------------------------------------------------------------------------
\* shared.py: paths and names
\* A path or a name is held as the sequence of its pieces: a piece is "/", "-",
\* "_", a file extension, or a run of other characters.
\* ------------------------------------------------------------------------

MaxInstallCalls == 3

\* os.path.join(a, b) for a relative b.
Join(a, b) == a \o <<"/">> \o b

\* A path names the same file with or without a trailing "/".
RECURSIVE Norm(_)
Norm(p) ==
  IF p # <<>> /\ p[Len(p)] = "/" THEN Norm(SubSeq(p, 1, Len(p) - 1)) ELSE p

OccursAt(pat, s, i) ==
  i + Len(pat) - 1 <= Len(s) /\ SubSeq(s, i, i + Len(pat) - 1) = pat

\* s.find(pat) >= 0, and what the shell's *pat* matches.
Contains(s, pat) == \E i \in 1..(Len(s) + 1) : OccursAt(pat, s, i)

\* s.replace(pat, ""), lines 65-67.
RECURSIVE Replace(_, _)
Replace(s, pat) ==
  IF pat = <<>> \/ s = <<>> THEN s
  ELSE IF OccursAt(pat, s, 1) THEN Replace(SubSeq(s, Len(pat) + 1, Len(s)), pat)
  ELSE <<Head(s)>> \o Replace(Tail(s), pat)

\* s.split(sep)[0]
RECURSIVE SplitFirst(_, _)
SplitFirst(s, sep) ==
  IF s = <<>> \/ Head(s) = sep THEN <<>>
  ELSE <<Head(s)>> \o SplitFirst(Tail(s), sep)

\* dir_name.split("-")[0].split("_")[0], line 71.
FirstPart(d) == SplitFirst(SplitFirst(d, "-"), "_")

\* The index of the last "-" of a path, 0 when it has none.
LastDash(p) ==
  IF \E i \in 1..Len(p) : p[i] = "-"
  THEN CHOOSE i \in 1..Len(p) : p[i] = "-" /\ \A j \in (i + 1)..Len(p) : p[j] # "-"
  ELSE 0

\* home_dir/tmp/cloudbiolinux, line 42: one piece, the home directory having no "-".
Work == <<"~/tmp/cloudbiolinux">>

Exts == {".tar.gz", ".zip"}

\* fabric's exists(path)
exists(p) == Norm(p) \in fs

\* _get_expected_file, lines 51-62: the file name, the name without its extension;
\* ValueError when the url ends in no known extension.
ExpectedFile(u) ==
  IF u.ext \in Exts
  THEN [ok |-> TRUE, tar_file |-> u.name \o <<u.ext>>, dir_name |-> u.name]
  ELSE [ok |-> FALSE, tar_file |-> <<>>, dir_name |-> <<>>]

\* The directories of the work directory whose name contains the pieces part:
\* what `ls -d1 *part*/` lists there.
Glob(part) ==
  {p \in fs : /\ Len(p) > Len(Work) + 1
              /\ SubSeq(p, 1, Len(Work) + 1) = Work \o <<"/">>
              /\ p[Len(p)] \notin Exts
              /\ Contains(SubSeq(p, Len(Work) + 2, Len(p)), part)}

\* The one line ls prints when nothing matches; run returns it as its output.
LsError == <<"ls: cannot access">>

\* _safe_dir_name with need_dir=True, lines 64-77, in the work directory.
SafeDirName(d) ==
  IF exists(Join(Work, d)) THEN [ok |-> TRUE, dir |-> d]
  ELSE IF exists(Join(Work, Replace(d, <<"-", "src">>)))
  THEN [ok |-> TRUE, dir |-> Replace(d, <<"-", "src">>)]
  ELSE LET dirs == Glob(FirstPart(d))
       IN  IF dirs = {} THEN [ok |-> TRUE, dir |-> LsError]
           ELSE IF Cardinality(dirs) = 1
           THEN [ok |-> TRUE,
                 dir |-> LET p == CHOOSE p \in dirs : TRUE
                         IN  SubSeq(p, Len(Work) + 2, Len(p)) \o <<"/">>]
           ELSE [ok |-> FALSE, dir |-> <<>>]

\* not exists(test1) and not exists(test2), lines 124-126, given test1 has a "-".
NotInstalled(test1) ==
  ~exists(test1) /\ ~exists(SubSeq(test1, 1, LastDash(test1) - 1))

\* Mutant of InstalledAs: line 130 tests the name the url gives, not dir_name.
InstalledAsExpected(d) == exists(Join(local_install, ExpectedFile(url).dir_name))

\* exists(os.path.join(env.local_install, dir_name)), line 130.
InstalledAs(d) == exists(Join(local_install, d))

\* ------------------------------------------------------------------------
\* shared.py: the inputs of _get_install_local
\* ------------------------------------------------------------------------

Pkg1 == <<"pkg", "-", "1">>

Pkg1Src == <<"pkg", "-", "1", "-", "src">>

PkgU1 == <<"pkg", "_", "1">>

Urls ==
  {[name |-> n, ext |-> ".tar.gz"] : n \in {Pkg1, Pkg1Src, PkgU1}}
  \cup {[name |-> Pkg1, ext |-> ".zip"], [name |-> <<"pkg">>, ext |-> ""]}

\* What the archive holds at its top level: the directory of its name, one of
\* another name, none, or two.
Archives ==
  {{Pkg1}, {Pkg1Src}, {PkgU1}, {<<"pkg">>}, {<<"lib", "pkg">>}, {},
   {PkgU1, <<"pkg", "doc">>}}

LocalInstalls == {<<"/loc">>, <<"/my", "-", "loc">>}

InstInit ==
  /\ url \in Urls
  /\ archive \in Archives
  /\ local_install \in LocalInstalls
  /\ fs \in {{<<"/my">>}, {<<"/my">>, local_install},
             {<<"/my">>, local_install, Join(local_install, Pkg1)}}
  /\ ipc = "idle"
  /\ dir_name = <<>>
  /\ made = FALSE
  /\ moved = "no"
  /\ installs = <<>>

InstIdle ==
  /\ url = [name |-> <<>>, ext |-> ""]
  /\ archive = {}
  /\ local_install = <<>>
  /\ fs = {}
  /\ ipc = "off"
  /\ dir_name = <<>>
  /\ made = FALSE
  /\ moved = "no"
  /\ installs = <<>>

\* ------------------------------------------------------------------------
\* shared.py: _get_install_local, step by step
\* ------------------------------------------------------------------------

\* The call ends: returned, ValueError, or aborted (fabric aborts on a failed
\* remote command). An exception skips what _make_tmp_dir does after its yield.
Finish(how, d, mk, mv) ==
  /\ installs' = Append(installs, [outcome |-> how, dir |-> d, made |-> mk, moved |-> mv])
  /\ ipc' = "idle"
  /\ dir_name' = <<>>
  /\ made' = FALSE
  /\ moved' = "no"

\* Lines 123-126.
BeginCall ==
  /\ ipc = "idle"
  /\ Len(installs) < MaxInstallCalls
  /\ LET test1 == Join(local_install, ExpectedFile(url).dir_name)
     IN  IF ~ExpectedFile(url).ok \/ LastDash(test1) = 0
         THEN Finish("ValueError", <<>>, FALSE, "no")
         ELSE IF NotInstalled(test1)
         THEN /\ ipc' = "tmpdir"
              /\ UNCHANGED <<dir_name, made, moved, installs>>
         ELSE Finish("returned", <<>>, FALSE, "no")
  /\ UNCHANGED <<url, local_install, archive, fs>>
  /\ UNCHANGED <<sumVars, selVars, scrVars>>

\* _make_tmp_dir up to its yield, lines 41-45.
MakeTmpDir ==
  /\ ipc = "tmpdir"
  /\ fs' = fs \cup {Work}
  /\ ipc' = "fetch"
  /\ UNCHANGED <<url, local_install, archive, dir_name, made, moved, installs>>
  /\ UNCHANGED <<sumVars, selVars, scrVars>>

\* _fetch_and_unpack, lines 87-89: the file is fetched unless it is there.
Fetch ==
  /\ ipc = "fetch"
  /\ fs' = fs \cup {Join(Work, ExpectedFile(url).tar_file)}
  /\ ipc' = "unpack"
  /\ UNCHANGED <<url, local_install, archive, dir_name, made, moved, installs>>
  /\ UNCHANGED <<sumVars, selVars, scrVars>>

\* _fetch_and_unpack, lines 90-91: unpacked unless the expected directory is there.
Unpack ==
  /\ ipc = "unpack"
  /\ fs' = IF exists(Join(Work, ExpectedFile(url).dir_name)) THEN fs
           ELSE fs \cup {Join(Work, d) : d \in archive}
  /\ ipc' = "safe_dir"
  /\ UNCHANGED <<url, local_install, archive, dir_name, made, moved, installs>>
  /\ UNCHANGED <<sumVars, selVars, scrVars>>

\* Line 92 with lines 64-77, then line 130.
FindDir ==
  /\ ipc = "safe_dir"
  /\ LET r == SafeDirName(ExpectedFile(url).dir_name)
     IN  IF ~r.ok THEN Finish("ValueError", <<>>, FALSE, "no")
         ELSE /\ dir_name' = r.dir
              /\ ipc' = IF InstalledAs(r.dir) THEN "cleanup" ELSE "make"
              /\ UNCHANGED <<made, moved, installs>>
  /\ UNCHANGED <<url, local_install, archive, fs>>
  /\ UNCHANGED <<sumVars, selVars, scrVars>>

\* Lines 131-132: make_command runs in dir_name; its remote commands fail when
\* the directory is not there, and may fail otherwise.
Make ==
  /\ ipc = "make"
  /\ \E works \in BOOLEAN :
       IF works /\ exists(Join(Work, dir_name))
       THEN /\ made' = TRUE
            /\ ipc' = "move"
            /\ UNCHANGED <<dir_name, moved, installs>>
       ELSE Finish("aborted", dir_name, TRUE, "no")
  /\ UNCHANGED <<url, local_install, archive, fs>>
  /\ UNCHANGED <<sumVars, selVars, scrVars>>

\* Line 133: mv moves the directory into env.local_install when that is a
\* directory and renames it to env.local_install when nothing is there.
Move ==
  /\ ipc = "move"
  /\ LET src == Norm(Join(Work, dir_name))
         into == Join(local_install, Norm(dir_name))
     IN  IF exists(local_install)
         THEN IF exists(into)
              THEN /\ Finish("aborted", dir_name, made, "no")
                   /\ UNCHANGED fs
              ELSE /\ fs' = (fs \ {src}) \cup {into}
                   /\ moved' = "into"
                   /\ ipc' = "cleanup"
                   /\ UNCHANGED <<dir_name, made, installs>>
         ELSE /\ fs' = (fs \ {src}) \cup {local_install}
              /\ moved' = "as"
              /\ ipc' = "cleanup"
              /\ UNCHANGED <<dir_name, made, installs>>
  /\ UNCHANGED <<url, local_install, archive>>
  /\ UNCHANGED <<sumVars, selVars, scrVars>>

\* _make_tmp_dir after its yield, lines 46-47, and the return.
RemoveTmpDir ==
  /\ ipc = "cleanup"
  /\ fs' = {p \in fs : SubSeq(p, 1, Len(Work)) # Work}
  /\ Finish("returned", dir_name, made, moved)
  /\ UNCHANGED <<url, local_install, archive>>
  /\ UNCHANGED <<sumVars, selVars, scrVars>>

\* ------------------------------------------------------------------------
\* shared.py: _run_in_screen and _is_running
\* A command line is the sequence of its words.
\* ------------------------------------------------------------------------

MaxScreenCalls == 2

\* `ps ax | grep 'cmd'`, line 154: the lines that hold cmd, that of grep included.
PsGrep(cmd) == {l \in procs \cup {<<"grep", cmd>>} : Contains(l, <<cmd>>)}

\* _is_running, lines 150-160.
IsRunning(cmd) ==
  \E line \in PsGrep(cmd) : Contains(line, <<cmd>>) /\ ~Contains(line, <<"grep">>)

\* Line 168.
CheckCmd(a) == IF a.check_cmd = "None" THEN a.cmd ELSE a.check_cmd

\* do_run = sudo if use_sudo else run, line 169: whose sessions screen sees.
Owner(a) == IF a.use_sudo THEN "root" ELSE "user"

\* if use_sudo is False, line 175.
StartsSession(a) == a.use_sudo = FALSE

ScreenArgs ==
  [name : {"galaxy", "web"}, cmd : {"server"}, check_cmd : {"None", "worker"},
   use_sudo : BOOLEAN]

ScrInit ==
  /\ args = [name |-> "", cmd |-> "", check_cmd |-> "None", use_sudo |-> FALSE]
  /\ procs \in SUBSET {<<"server">>, <<"worker">>, <<"egrep", "server", "log">>}
  /\ sessions \in {{}, {<<"root", "galaxy">>}}
  /\ spc = "idle"
  /\ issued = <<>>
  /\ screen_calls = <<>>

ScrIdle ==
  /\ args = [name |-> "", cmd |-> "", check_cmd |-> "None", use_sudo |-> FALSE]
  /\ procs = {}
  /\ sessions = {}
  /\ spc = "off"
  /\ issued = <<>>
  /\ screen_calls = <<>>

EndScreenCall(how, cmds) ==
  /\ screen_calls' = Append(screen_calls,
                            [args |-> args, outcome |-> how, issued |-> cmds])
  /\ spc' = "idle"
  /\ issued' = <<>>

\* Lines 162-172: the call and its test of the process table.
CallScreen ==
  /\ spc = "idle"
  /\ Len(screen_calls) < MaxScreenCalls
  /\ \E a \in ScreenArgs :
       /\ args' = a
       /\ IF IsRunning(CheckCmd(a))
          THEN /\ screen_calls' = Append(screen_calls,
                    [args |-> a, outcome |-> "running", issued |-> <<>>])
               /\ UNCHANGED <<spc, issued>>
          ELSE /\ spc' = IF StartsSession(a) THEN "start" ELSE "stuff"
               /\ issued' = <<>>
               /\ UNCHANGED screen_calls
  /\ UNCHANGED <<procs, sessions>>
  /\ UNCHANGED <<sumVars, selVars, instVars>>

\* Lines 175-176: screen -d -m -S name.
StartSession ==
  /\ spc = "start"
  /\ issued' = Append(issued, [by |-> Owner(args), op |-> "start", session |-> args.name])
  /\ sessions' = sessions \cup {<<Owner(args), args.name>>}
  /\ spc' = "stuff"
  /\ UNCHANGED <<args, procs, screen_calls>>
  /\ UNCHANGED <<sumVars, selVars, instVars>>

\* Lines 177-179: screen -S name -p0 -X stuff cmd. With no such session of the
\* user it runs as, screen fails and fabric aborts; otherwise the command, and
\* the process it spawns under another name, start in the session.
Stuff ==
  /\ spc = "stuff"
  /\ LET cmds == Append(issued, [by |-> Owner(args), op |-> "stuff",
                                 session |-> args.name])
     IN  IF <<Owner(args), args.name>> \in sessions
         THEN /\ procs' = procs \cup {<<args.cmd>>}
                    \cup (IF args.check_cmd = "None" THEN {} ELSE {<<args.check_cmd>>})
              /\ EndScreenCall("sent", cmds)
         ELSE /\ EndScreenCall("aborted", cmds)
              /\ UNCHANGED procs
  /\ UNCHANGED <<args, sessions>>
  /\ UNCHANGED <<sumVars, selVars, instVars>>

\* Between two calls a process of the table may exit.
ProcessExits ==
  /\ spc = "idle"
  /\ \E l \in procs : procs' = procs \ {l}
  /\ UNCHANGED <<args, sessions, spc, issued, screen_calls>>
  /\ UNCHANGED <<sumVars, selVars, instVars>>

\* ------------------------------------------------------------------------
\* The specifications
\* ------------------------------------------------------------------------

Init == SumInit /\ SelIdle /\ InstIdle /\ ScrIdle

Next == NextRegion \/ NextRecord \/ Bucket \/ Return \/ Rerun

Spec == Init /\ [][Next]_vars

SelectInit == SumIdle /\ SelInit /\ InstIdle /\ ScrIdle

SelectNext == Classify

SpecSelect == SelectInit /\ [][SelectNext]_vars

InstallInit == SumIdle /\ SelIdle /\ InstInit /\ ScrIdle

InstallNext ==
  BeginCall \/ MakeTmpDir \/ Fetch \/ Unpack \/ FindDir \/ Make \/ Move
  \/ RemoveTmpDir

SpecInstall == InstallInit /\ [][InstallNext]_vars

ScreenInit == SumIdle /\ SelIdle /\ InstIdle /\ ScrInit

ScreenNext == CallScreen \/ StartSession \/ Stuff \/ ProcessExits

SpecScreen == ScreenInit /\ [][ScreenNext]_vars

\* ------------------------------------------------------------------------
\* summarize_stats.py: what the claims speak of
\* ------------------------------------------------------------------------

Terminal == pc \in {"done", "ZeroDivisionError"}

Headers(lines) == SelectSeq(lines, LAMBDA l : l.kind = "header")

BucketLines(lines) == SelectSeq(lines, LAMBDA l : l.kind = "bucket")

\* The sum of field f over the entries of calls whose percent lies in bucket i,
\* an entry without the field counting 0.
RECURSIVE FieldSum(_, _, _)
FieldSum(calls, i, f) ==
  IF calls = <<>> THEN 0
  ELSE (IF selects(i, Head(calls)) /\ f \in DOMAIN Head(calls)
        THEN Head(calls)[f] ELSE 0) + FieldSum(Tail(calls), i, f)

BucketTotal(calls, i) ==
  FieldSum(calls, i, "correct") + FieldSum(calls, i, "wrong")
  + FieldSum(calls, i, "partial") + FieldSum(calls, i, "skipped")

\* The buckets of every call of summarize_counts so far, in order.
RECURSIVE Flatten(_)
Flatten(reps) ==
  IF reps = <<>> THEN <<>> ELSE Head(reps).buckets \o Flatten(Tail(reps))

Reported(reps) == SelectSeq(Flatten(reps), LAMBDA b : ~b.failed)

RECURSIVE SumRight(_)
SumRight(bs) == IF bs = <<>> THEN 0 ELSE Head(bs).right + SumRight(Tail(bs))

\* How often x occurs in the sequence s.
Count(s, x) == Cardinality({i \in 1..Len(s) : s[i] = x})

\* C1: a sub-report is emitted only for a record whose region is a configured
\* label (the header lines printed are those of the records summarized, each of
\* region "rt" or "gag"), and the records of other regions change nothing: main
\* on the list without them prints the same lines and ends the same way.
C1_OnlyConfiguredRegions ==
  /\ \A k \in 1..Len(subreports) : subreports[k].info.region \in Range(regions)
  /\ Headers(out) = [k \in 1..Len(subreports) |-> HeaderLine(subreports[k].info)]
  /\ (run = 2 /\ Terminal /\ in_files[2] = Labelled(in_files[1]))
       => (out = first.out /\ pc = first.pc)

\* C1 witness: both invocations have ended, the first list held a record of
\* another region and a record of a configured one, which was summarized.
C1_Witness ==
  /\ run = 2 /\ Terminal
  /\ in_files[2] # in_files[1]
  /\ \E i \in 1..Len(in_files[1]) : in_files[1][i].region = "env"
  /\ Len(subreports) >= 1
  /\ Len(BucketLines(out)) >= 1

\* C2 (as claimed): when main has ended, the records summarized for each region
\* are in non-decreasing order of (float(qual), float(kmer)) and are the
\* records of that region in the input, each exactly once.
C2_SortedAndComplete ==
  Terminal =>
    \A r \in Range(regions) :
      LET em == SelectSeq([k \in 1..Len(subreports) |-> subreports[k].info],
                          LAMBDA s : s.region = r)
          inp == SelectSeq(stats, LAMBDA s : s.region = r)
      IN  /\ \A i \in 1..Len(em) : \A j \in i..Len(em) :
               \/ ToFloat(em[i].qual) < ToFloat(em[j].qual)
               \/ /\ ToFloat(em[i].qual) = ToFloat(em[j].qual)
                  /\ ToFloat(em[i].kmer) <= ToFloat(em[j].kmer)
          /\ \A x \in Range(inp) \cup Range(em) : Count(em, x) = Count(inp, x)

\* What does hold of the order (not a claim's formula): the records summarized so
\* far are in order and none more often than the input has it, and a run that ends
\* without an error has summarized every record of the configured regions.
SortedSoFar ==
  \A r \in Range(regions) :
    LET em == SelectSeq([k \in 1..Len(subreports) |-> subreports[k].info],
                        LAMBDA s : s.region = r)
        inp == SelectSeq(stats, LAMBDA s : s.region = r)
    IN  /\ \A i \in 1..Len(em) : \A j \in i..Len(em) :
             \/ ToFloat(em[i].qual) < ToFloat(em[j].qual)
             \/ /\ ToFloat(em[i].qual) = ToFloat(em[j].qual)
                /\ ToFloat(em[i].kmer) <= ToFloat(em[j].kmer)
        /\ \A x \in Range(em) : Count(em, x) <= Count(inp, x)
        /\ pc = "done" => \A x \in Range(inp) : Count(em, x) = Count(inp, x)

\* C4 (as claimed): when main has ended, for every record summarize_counts was
\* called on, the right counts it reported add up to the sum of `correct` over
\* all the call entries of the record.
C4_Additivity ==
  Terminal =>
    \A k \in 1..Len(subreports) :
      SumRight(SelectSeq(subreports[k].buckets, LAMBDA b : ~b.failed))
        = FieldSum(subreports[k].info.calls, 1, "correct")
          + FieldSum(subreports[k].info.calls, 2, "correct")
          + FieldSum(subreports[k].info.calls, 3, "correct")

\* C5 (as claimed): a bucket with no matching entry does not end in an arithmetic
\* error: either EmptyBucketError is raised or the bucket is reported as 0.
C5_EmptyBucketHandled ==
  \A k \in 1..Len(subreports) : \A j \in 1..Len(subreports[k].buckets) :
    LET b == subreports[k].buckets[j]
    IN  b.matched = 0 =>
          \/ pc = "EmptyBucketError"
          \/ ~b.failed /\ b.right = 0 /\ b.wrong = 0

\* C6: main run twice on the same list prints the same lines and ends the same
\* way (returns, or raises at the same bucket), whatever the order in which the
\* fields of an entry are visited and whatever the first run left in vals.
C6_Idempotent ==
  (run = 2 /\ Terminal /\ in_files[2] = in_files[1])
    => (out = first.out /\ pc = first.pc)

\* C6 witness: both runs on the same list have ended with the division error,
\* after lines of earlier buckets were printed.
C6_Witness ==
  /\ run = 2 /\ pc = "ZeroDivisionError"
  /\ in_files[2] = in_files[1]
  /\ first.pc = "ZeroDivisionError"
  /\ Len(BucketLines(out)) >= 1

\* C8: for every bucket computed, right is the sum of `correct`, wrong the sum of
\* `wrong` plus the sum of `partial`, and total the sum of every field but
\* percent, over the entries of the bucket; right + wrong = total exactly when
\* the further field sums to zero and right + wrong < total when it is positive;
\* the lines printed carry these counts, and their two percentages add up to
\* 100.0 when right + wrong = total.
C8_BucketCounts ==
  /\ \A k \in 1..Len(subreports) : \A j \in 1..Len(subreports[k].buckets) :
       LET b == subreports[k].buckets[j]
           calls == subreports[k].info.calls
           others == FieldSum(calls, j, "skipped")
       IN  /\ b.name = names[j]
           /\ b.right = FieldSum(calls, j, "correct")
           /\ b.wrong = FieldSum(calls, j, "wrong") + FieldSum(calls, j, "partial")
           /\ b.total = BucketTotal(calls, j)
           /\ (b.right + b.wrong = b.total) <=> (others = 0)
           /\ others > 0 => b.right + b.wrong < b.total
  /\ Len(BucketLines(out)) = Len(Reported(subreports))
  /\ \A n \in 1..Len(BucketLines(out)) :
       LET l == BucketLines(out)[n]
           b == Reported(subreports)[n]
       IN  /\ l.name = b.name /\ l.right = b.right /\ l.wrong = b.wrong
           /\ l.right_pct = Pct(b.right, b.total)
           /\ l.wrong_pct = Pct(b.wrong, b.total)
           /\ b.right + b.wrong = b.total => l.right_pct + l.wrong_pct = 1000

\* C8 witness: a bucket was reported whose entries carry correct, wrong-or-partial
\* and further counts.
C8_Witness ==
  \E n \in 1..Len(Reported(subreports)) :
    LET b == Reported(subreports)[n]
    IN  b.right > 0 /\ b.wrong > 0 /\ b.right + b.wrong < b.total

\* Where a failed bucket may stand: last of the last call, the run having ended.
FailedIsLast ==
  \A k \in 1..Len(subreports) : \A j \in 1..Len(subreports[k].buckets) :
    subreports[k].buckets[j].failed =>
      /\ k = Len(subreports) /\ j = Len(subreports[k].buckets)
      /\ pc = "ZeroDivisionError"

\* C10: a bucket fails with the division error exactly when the sum of all the
\* fields but percent over its entries is zero, with or without entries; the
\* failed bucket is the last thing the run did: every line before it is in the
\* output (one header per record begun, one line per bucket that did not fail) and
\* the run prints nothing more.
C10_FailsExactlyOnZeroTotal ==
  /\ [](/\ \A k \in 1..Len(subreports) : \A j \in 1..Len(subreports[k].buckets) :
            subreports[k].buckets[j].failed
              <=> (BucketTotal(subreports[k].info.calls, j) = 0)
        /\ FailedIsLast
        /\ pc = "ZeroDivisionError" =>
             /\ subreports # <<>>
             /\ subreports[Len(subreports)].buckets # <<>>
             /\ Flatten(subreports)[Len(Flatten(subreports))].failed
        /\ Len(Headers(out)) = Len(subreports)
        /\ Len(BucketLines(out)) = Len(Reported(subreports)))
  /\ [][pc = "ZeroDivisionError" => (run = 1 /\ run' = 2 /\ first'.out = out)]_vars

\* C10 witness: the run failed on a bucket that has an entry, all of whose counts
\* are zero, after a line of an earlier bucket was printed.
C10_Witness ==
  /\ pc = "ZeroDivisionError"
  /\ subreports # <<>>
  /\ LET bs == subreports[Len(subreports)].buckets
     IN  /\ Len(bs) >= 2
         /\ bs[Len(bs)].failed /\ bs[Len(bs)].matched > 0
  /\ Len(BucketLines(out)) >= 1

\* C3: for an entry whose percent lies in [0, 100], exactly one of the three
\* selectors holds, the one the claim names for its percent, so the three
\* filters together keep the entry exactly once.
C3_BucketPartition ==
  (hits # <<>> /\ entry.percent \in 0..100) =>
    /\ hits[1] + hits[2] + hits[3] = 1
    /\ hits[1] = 1 <=> entry.percent = 100
    /\ hits[2] = 1 <=> (5 <= entry.percent /\ entry.percent < 100)
    /\ hits[3] = 1 <=> entry.percent < 5

\* C3 witness: the entry of 5 percent was classified, into the middle bucket.
C3_Witness == entry.percent = 5 /\ hits = <<0, 1, 0>>

\* Outside [0, 100] the partition is not total (not a claim's formula): an entry
\* above 100 percent is kept by no selector.
AboveRangeDropped ==
  (hits # <<>> /\ entry.percent > 100) => hits = <<0, 0, 0>>

\* A call that fetched, built and moved the directory into env.local_install.
Installed(c) == c.outcome = "returned" /\ c.made /\ c.moved = "into"

\* C7: once a call of _get_install_local with the url and env has returned after
\* running make_command and moving the directory into env.local_install, no later
\* call with them runs make_command or mv, whichever name _safe_dir_name
\* returned.
C7_InstallOnce ==
  \A k \in 1..Len(installs) :
    Installed(installs[k]) =>
      /\ \A j \in (k + 1)..Len(installs) :
           ~installs[j].made /\ installs[j].moved = "no"
      /\ ~made /\ moved = "no"

\* C7 witness: the first call installed a directory that _safe_dir_name found by
\* its listing (its name ends in "/"), and the second call fetched and unpacked
\* again, found the same directory, and returned.
C7_Witness ==
  /\ Len(installs) >= 2
  /\ Installed(installs[1])
  /\ installs[1].dir # <<>> /\ installs[1].dir[Len(installs[1].dir)] = "/"
  /\ installs[2].outcome = "returned"
  /\ installs[2].dir = installs[1].dir

\* Without the directory env.local_install the first call renames the unpacked
\* directory to it, and the second call builds again (not a claim's formula).
RenamedThenBuiltAgain ==
  /\ Len(installs) >= 2
  /\ installs[1].outcome = "returned" /\ installs[1].moved = "as"
  /\ installs[2].made

\* The screen commands of every call so far, the running one included.
AllScreenCalls ==
  screen_calls \o (IF spc \in {"start", "stuff"}
                   THEN <<[args |-> args, outcome |-> "pending", issued |-> issued]>>
                   ELSE <<>>)

\* C9 (as claimed): a call that finds the process running issues no screen
\* command, and in every other call, with use_sudo False or True, the command is
\* sent to the session only after that call has started a session of that name.
C9_StartedBeforeSent ==
  \A k \in 1..Len(AllScreenCalls) :
    LET c == AllScreenCalls[k]
    IN  /\ c.outcome = "running" => c.issued = <<>>
        /\ \A i \in 1..Len(c.issued) :
             c.issued[i].op = "stuff" =>
               /\ c.issued[i].session = c.args.name
               /\ \E j \in 1..(i - 1) :
                    /\ c.issued[j].op = "start"
                    /\ c.issued[j].session = c.args.name

\* What does hold (not a claim's formula): the same, for the calls with
\* use_sudo False; a call with use_sudo True starts no session.
StartedBeforeSentWithoutSudo ==
  \A k \in 1..Len(AllScreenCalls) :
    LET c == AllScreenCalls[k]
    IN  /\ c.outcome = "running" => c.issued = <<>>
        /\ \A i \in 1..Len(c.issued) :
             /\ c.issued[i].session = c.args.name
             /\ (c.issued[i].op = "stuff" /\ ~c.args.use_sudo) =>
                  \E j \in 1..(i - 1) : c.issued[j].op = "start"
             /\ c.issued[i].op = "start" => ~c.args.use_sudo

====
